---- MODULE Spec2Model ----
(***************************************************************************)
(* Model of groqddbot's session store: chat::Session (bounded history),    *)
(* bot::ChatSession (Arc<Mutex<Session>>), bot::BotDataInner (two-level    *)
(* DashMap behind a tokio RwLock, flush flag), the prompt command and the  *)
(* sessions flusher task.                                                  *)
(*   SessionSpec: one caller on one Session.                               *)
(*   Spec:        two command tasks and the flusher, interleaved.          *)
(*   FairSpec:    the same steps under the scheduler's fairness.           *)
(*   ClockSpec:   the flusher step by step, the clock and the info command.*)
(***************************************************************************)
EXTENDS Integers, Sequences, FiniteSets, TLC

\* ------------------------------------------------------------------ bounds
\* largest configured chat.history_size explored (config.rs admits 1..255)
MaxHistorySize == 2
\* number of Session operations a sequential caller performs (SessionSpec)
MaxOps == 6
\* number of prompt commands the transport layer delivers (Spec)
MaxPrompts == 3
\* number of times the flusher wakes up (Spec, ClockSpec)
MaxFlushes == 1
\* number of prompt commands delivered in the runs with fairness (FairSpec)
MaxFairPrompts == 2
\* largest configured chat.flush_days explored (config.rs admits 1..255)
MaxFlushDays == 2
\* clock ticks per second: the clock is finer than the whole seconds
\* next_flush is stored in
TicksPerSec == 2
\* how many ticks the clock may run past the flusher's current deadline
MaxLate == 3

\* guild ids, user ids and the concurrently running command tasks
Guilds == {"gA", "gB"}
Users == {"uX", "uY"}
Workers == {"w1", "w2"}
\* the (guild, user) pairs prompts come from: two users of one guild, and
\* one user in two guilds
Keys == {<<"gA", "uX">>, <<"gA", "uY">>, <<"gB", "uX">>}
\* the first task serves one user; the second serves that user, another
\* user of the same guild, or the same user in another guild
KeysOf(w) == IF w = "w1" THEN {<<"gA", "uX">>} ELSE Keys
NoRef == 0
NoOne == "free"

\* ------------------------------------------------------------- chat.rs data
\* the ways genai's exec_chat can fail (an opaque genai::Error value)
BackendErrors == {"network", "auth"}

\* what exec_chat can hand back for the prompt with content id n: a text
\* reply, a response without content, a response whose content is not text,
\* or an error
BackendOutcomes(n) ==
  {[kind |-> "text", payload |-> <<"re", n>>],
   [kind |-> "no_content", payload |-> <<>>],
   [kind |-> "non_text", payload |-> <<>>]}
  \cup {[kind |-> "error", payload |-> <<e>>] : e \in BackendErrors}

\* ChatMessage::user(content) / ChatMessage::assistant(content)
ChatMessage(role, content) == [role |-> role, content |-> content]

\* struct Interaction { user_message, assistant_message }
Interaction(user_message, assistant_message) ==
  [user_message |-> user_message, assistant_message |-> assistant_message]

\* User::send_message: exec_chat(..).await
\*   .map(|cr| cr.content.unwrap().text_into_string().unwrap())
\* an Err passes through untouched, a text reply becomes Ok(text), and a
\* response with no content or non-text content panics in unwrap()
User_send_message(outcome) ==
  CASE outcome.kind = "error" -> [kind |-> "Err", payload |-> outcome.payload]
    [] outcome.kind = "text" -> [kind |-> "Ok", payload |-> outcome.payload]
    [] OTHER -> [kind |-> "panic", payload |-> <<>>]

\* VecDeque::with_capacity(n): the deque's capacity() afterwards.  The
\* standard library allocates exactly n slots for a non-zero-sized element.
VecDeque_with_capacity(n) == n

\* Session::new(user, history_size)
Session_new(history_size) ==
  [history |-> <<>>, capacity |-> VecDeque_with_capacity(history_size)]

\* SessionBuilder::create_chat
create_chat(history_size) == Session_new(history_size)

\* faulty variant: pushes without ever evicting
append_to_history_no_evict(session, interaction) ==
  [session EXCEPT !.history = Append(@, interaction)]

\* Session::append_to_history: pop_front when len == capacity, then push_back
append_to_history(session, interaction) ==
  LET kept == IF Len(session.history) = session.capacity
              THEN Tail(session.history)
              ELSE session.history
  IN [session EXCEPT !.history = Append(kept, interaction)]

\* faulty variant: pops the oldest interaction instead of the newest
pop_front_interaction(session) ==
  [session EXCEPT !.history = IF @ = <<>> THEN @ ELSE Tail(@)]

\* faulty variant: drops the whole history
clear_history(session) == [session EXCEPT !.history = <<>>]

\* Session::pop_last_interaction: VecDeque::pop_back, None on an empty deque
pop_last_interaction(session) ==
  [session EXCEPT !.history =
     IF @ = <<>> THEN @ ELSE SubSeq(@, 1, Len(@) - 1)]

\* history.iter().flat_map(|p| once(&p.user_message).chain(once(&p.assistant_message)))
RECURSIVE Flatten(_)
Flatten(history) ==
  IF history = <<>> THEN <<>>
  ELSE <<Head(history).user_message, Head(history).assistant_message>>
       \o Flatten(Tail(history))

\* Session::send_message up to the await: the outgoing ChatRequest messages
BuildRequest(session, content) ==
  Flatten(session.history) \o <<ChatMessage("user", content)>>

\* faulty variant: records the exchange before looking at the result
send_message_keep_history_on_error(session, content, outcome) ==
  LET r == User_send_message(outcome)
      appended == append_to_history(session,
                    Interaction(ChatMessage("user", content),
                                ChatMessage("assistant", r.payload)))
  IN [session |-> IF r.kind = "panic" THEN session ELSE appended, result |-> r]

\* Session::send_message after the await: `?` returns the error as it is, a
\* panic unwinds, and only an Ok reply is appended to the history
Session_send_message(session, content, outcome) ==
  LET r == User_send_message(outcome)
  IN IF r.kind = "Ok"
     THEN [session |-> append_to_history(session,
                         Interaction(ChatMessage("user", content),
                                     ChatMessage("assistant", r.payload))),
           result |-> r]
     ELSE [session |-> session, result |-> r]

\* --------------------------------------------------------- bot.rs store
\* DashMap::new()
DashMap_new(keys) == [k \in keys |-> NoRef]

\* faulty variant: a clear that removes nothing
dashmap_clear_nothing(store) == store

\* DashMap::clear(): every entry of the top-level map is removed
dashmap_clear(store) == [k \in DOMAIN store |-> NoRef]

\* faulty variant: every guild shares the first map built (keyed by user only)
outer_entry_one_map(store, maps, guild) ==
  IF \E g \in Guilds : store[g] # NoRef
  THEN LET m == store[CHOOSE g \in Guilds : store[g] # NoRef]
       IN [sessions |-> [store EXCEPT ![guild] = m], gmaps |-> maps, ref |-> m]
  ELSE [sessions |-> [store EXCEPT ![guild] = Len(maps) + 1],
        gmaps |-> Append(maps, DashMap_new(Users)),
        ref |-> Len(maps) + 1]

\* sessions.entry(guild).or_insert_with(|| Arc::new(DashMap::new())).clone()
\* done under the shard lock of the key: one atomic step
outer_entry(store, maps, guild) ==
  IF store[guild] # NoRef
  THEN [sessions |-> store, gmaps |-> maps, ref |-> store[guild]]
  ELSE [sessions |-> [store EXCEPT ![guild] = Len(maps) + 1],
        gmaps |-> Append(maps, DashMap_new(Users)),
        ref |-> Len(maps) + 1]

\* faulty variant: insert() instead of entry().or_insert_with()
inner_entry_insert(maps, gs, user, chats) ==
  [gmaps |-> [maps EXCEPT ![gs][user] = Len(chats) + 1],
   ref |-> Len(chats) + 1,
   created |-> TRUE]

\* guild_sessions.entry(user)
\*   .or_insert_with(|| ChatSession::new(self.sbuilder.create_chat())).clone()
inner_entry(maps, gs, user, chats) ==
  IF maps[gs][user] # NoRef
  THEN [gmaps |-> maps, ref |-> maps[gs][user], created |-> FALSE]
  ELSE [gmaps |-> [maps EXCEPT ![gs][user] = Len(chats) + 1],
        ref |-> Len(chats) + 1,
        created |-> TRUE]

\* the GuildSessions maps some Arc still points to: those in the top-level
\* map and those a task holds a clone of
LiveMaps(store, tasks) ==
  ({store[g] : g \in Guilds} \cup {tasks[w].guild_sessions : w \in Workers})
  \ {NoRef}

\* the ChatSessions some Arc still points to: those in a live map and those
\* a task holds a clone of
LiveSessions(store, maps, tasks) ==
  ({maps[m][u] : m \in LiveMaps(store, tasks), u \in Users}
   \cup {tasks[w].session : w \in Workers}) \ {NoRef}

\* a Session whose last Arc was dropped: its memory is gone
Freed == [history |-> <<>>, capacity |-> 0]

\* dropping the last Arc of a GuildSessions map drops its entries
DropMaps(store, maps, tasks) ==
  [m \in DOMAIN maps |->
     IF m \in LiveMaps(store, tasks) THEN maps[m] ELSE DashMap_new(Users)]

\* dropping the last Arc of a ChatSession drops the Session
DropSessions(chats, live) ==
  [i \in DOMAIN chats |-> IF i \in live THEN chats[i] ELSE Freed]

\* faulty variant: the read guard outlives the call
keep_read_guard(lock, w) == lock

\* session() returns: the RwLockReadGuard `sessions` goes out of scope
drop_read_guard(lock, w) == [lock EXCEPT !.readers = @ \ {w}]

\* tokio RwLock: read() is granted while no writer holds the lock or is
\* queued for it (the lock is fair: a queued writer holds new readers back)
CanRead(lock) == ~lock.writer /\ ~lock.waiting

\* faulty variant: a writer that does not wait for the readers
CanWriteAnytime(lock) == ~lock.writer

\* tokio RwLock: write() is granted once no reader and no writer holds it
CanWrite(lock) == lock.readers = {} /\ ~lock.writer

\* faulty variant: no mutual exclusion on the Session
MutexAlwaysFree(m, s) == TRUE

\* faulty variant: one mutex for all the Sessions
MutexOfAllFree(m, s) == \A i \in DOMAIN m : m[i] = NoOne

\* tokio Mutex: lock() is granted when nobody holds the mutex
MutexFree(m, s) == m[s] = NoOne

\* faulty variant: the flag is never seen set
is_flushing_never(flag) == FALSE

\* BotDataInner::is_flushing: self.flushing.load(Acquire)
is_flushing(flag) == flag

\* faulty variant: the flag is never set
flushing_store_false(yes) == FALSE

\* BotDataInner::flushing(yes): self.flushing.store(yes, Release)
flushing_store(yes) == yes

\* faulty variant: the last interaction is removed whatever the reply did
on_reply_always_undo(result) == "undo"

\* prompt: match ctx.reply(response).await { Ok(_) => Ok(()), Err(err) =>
\* { session.remove_last_interaction().await; Err(..) } }: where the command
\* goes after the reply
on_reply(result) == IF result = "Ok" THEN "idle" ELSE "undo"

\* --------------------------------------------------------- bot.rs clock
\* const ONE_DAY_IN_SECS: Duration = Duration::from_secs(3600)
ONE_DAY_IN_SECS == 3600

\* BotData::new: flush_timeout: ONE_DAY_IN_SECS * conf.chat.flush_days as u32
\* (seconds; a u8 times 3600 is far from overflowing the Duration)
flush_timeout_of(days) == ONE_DAY_IN_SECS * days

\* DateTime::timestamp(): whole seconds since the epoch, fractions dropped
timestamp(t) == t \div TicksPerSec

\* schedule_next_flush: (chrono::Local::now() + self.flush_timeout).timestamp()
\* with the clock reading t (ticks) and the timeout in seconds
schedule_next_flush(t, timeout) == timestamp(t + timeout * TicksPerSec)

\* faulty variant: a sleep that is over at once
sleep_deadline_now(t, timeout) == t

\* tokio::time::sleep(flush_timeout) called at clock reading t: the reading
\* from which the sleep is over
sleep_deadline(t, timeout) == t + timeout * TicksPerSec

\* ------------------------------------------------------------------- state
VARIABLES
  history_size,  \* conf.chat.history_size, fixed at start
  heap,          \* every chat::Session ever built, by allocation index
  mutex,         \* ChatSession.session: who holds the Mutex of heap[i]
  made_for,      \* (guild, user) whose entry heap[i] was created for
  sessions,      \* BotDataInner.sessions: guild -> index into gmaps
  gmaps,         \* every GuildSessions map ever built: user -> index into heap
  rw,            \* the RwLock around sessions
  flushing,      \* BotDataInner.flushing
  flusher,       \* where the flusher task stands
  flushes,       \* times the flusher woke up
  cleared_upto,  \* Len(heap) when the store was last cleared
  task,          \* the prompt command each worker runs, with its locals
  started,       \* per worker: prompt commands that got past the checks
  issued,        \* prompt commands that got past the checks, all workers
  flush_days,    \* conf.chat.flush_days, fixed at start
  flush_timeout, \* BotDataInner.flush_timeout (seconds), fixed at start
  now,           \* the clock, in ticks
  next_flush,    \* BotDataInner.next_flush (seconds since the epoch)
  deadline,      \* clock reading at which the flusher's sleep is over
  observed,      \* the next_flush values the info command has read
  ops            \* SessionSpec: the calls made so far on heap[1], with results

storeVars == <<sessions, gmaps, rw>>
flushVars == <<flushing, flusher, flushes, cleared_upto>>
heapVars == <<heap, mutex, made_for>>
promptVars == <<task, started, issued>>
confVars == <<flush_days, flush_timeout>>
clockVars == <<now, next_flush, deadline, observed>>

vars == <<history_size, heapVars, storeVars, flushVars, promptVars, confVars,
          clockVars, ops>>

\* the text of a prompt sent by `user` in `guild`; n tells the prompts apart
Content(guild, user, n) == [guild |-> guild, user |-> user, id |-> n]

\* a worker with no command running
Idle ==
  [pc |-> "idle", guild |-> "-", user |-> "-",
   content |-> Content("-", "-", <<>>),
   guild_sessions |-> NoRef, session |-> NoRef, request |-> <<>>,
   reply |-> "-"]

\* BotData::new and start_sessions_flusher: empty store, flushing = false,
\* no command running; the flusher has published its first next_flush and is
\* in its first sleep (its first steps are taken one by one in ClockSpec).
\* The day count only scales the clock, so one value of it is explored here.
BotInit ==
  /\ sessions = DashMap_new(Guilds)
  /\ gmaps = <<>>
  /\ rw = [readers |-> {}, writer |-> FALSE, waiting |-> FALSE]
  /\ flushing = FALSE
  /\ flusher = "sleep"
  /\ flushes = 0
  /\ cleared_upto = 0
  /\ task = [w \in Workers |-> Idle]
  /\ started = [w \in Workers |-> 0]
  /\ issued = 0
  /\ flush_days = 1
  /\ flush_timeout = flush_timeout_of(flush_days)
  /\ now = 0
  /\ next_flush = schedule_next_flush(now, flush_timeout)
  /\ deadline = sleep_deadline(now, flush_timeout)
  /\ observed = {}

\* the bot with two command tasks: the smallest and the largest history
\* window are explored
Init ==
  /\ history_size \in {1, MaxHistorySize}
  /\ heap = <<>> /\ mutex = <<>> /\ made_for = <<>>
  /\ BotInit
  /\ ops = <<>>

\* ------------------------------------------------------- prompt command
\* prompt, up to data.session(guild, user): a content longer than
\* prompt_size is answered with a notice and the command returns having
\* touched nothing; with is_flushing() true the command goes on to send the
\* flush notice; otherwise it goes on to data.session
PromptCheck(w) ==
  /\ task[w].pc = "idle"
  /\ issued < MaxPrompts
  /\ \E too_long \in BOOLEAN :
       IF too_long
       THEN UNCHANGED promptVars
       ELSE IF is_flushing(flushing)
       THEN /\ task' = [task EXCEPT ![w].pc = "flush_notice"]
            /\ UNCHANGED <<started, issued>>
       ELSE \E key \in KeysOf(w) :
              /\ started' = [started EXCEPT ![w] = @ + 1]
              /\ issued' = issued + 1
              /\ task' = [task EXCEPT ![w] =
                   [Idle EXCEPT !.pc = "session", !.guild = key[1],
                                !.user = key[2],
                                !.content = Content(key[1], key[2],
                                                     <<w, started[w] + 1>>)]]
  /\ UNCHANGED <<history_size, heapVars, storeVars, flushVars, confVars,
                 clockVars, ops>>

\* prompt: send_embedded_reply with the flush notice is over (delivered or
\* not), and the command returns
FlushNoticeSent(w) ==
  /\ task[w].pc = "flush_notice"
  /\ task' = [task EXCEPT ![w] = Idle]
  /\ UNCHANGED <<history_size, heapVars, storeVars, flushVars, started,
                 issued, confVars, clockVars, ops>>

\* BotDataInner::session: self.sessions.read().await is granted and the
\* guild's map is looked up, created if absent (taking the read lock
\* commutes with what the other tasks do, so the two make one step)
SessionGuild(w) ==
  /\ task[w].pc = "session"
  /\ CanRead(rw)
  /\ rw' = [rw EXCEPT !.readers = @ \cup {w}]
  /\ LET e == outer_entry(sessions, gmaps, task[w].guild)
     IN /\ sessions' = e.sessions
        /\ gmaps' = e.gmaps
        /\ task' = [task EXCEPT ![w].pc = "user_entry",
                                ![w].guild_sessions = e.ref]
  /\ UNCHANGED <<history_size, heapVars, flushVars, started, issued,
                 confVars, clockVars, ops>>

\* BotDataInner::session: the user's ChatSession is looked up, created if
\* absent, and the function returns it, dropping the read guard
SessionUser(w) ==
  /\ task[w].pc = "user_entry"
  /\ LET e == inner_entry(gmaps, task[w].guild_sessions, task[w].user, heap)
     IN /\ gmaps' = e.gmaps
        /\ IF e.created
           THEN /\ heap' = Append(heap, create_chat(history_size))
                /\ mutex' = Append(mutex, NoOne)
                /\ made_for' = Append(made_for, <<task[w].guild, task[w].user>>)
           ELSE UNCHANGED heapVars
        /\ task' = [task EXCEPT ![w].pc = "lock", ![w].session = e.ref,
                                ![w].guild_sessions = NoRef]
  /\ rw' = drop_read_guard(rw, w)
  /\ UNCHANGED <<history_size, sessions, flushVars, started, issued,
                 confVars, clockVars, ops>>

\* ChatSession::send_message: session.lock().await, then
\* Session::send_message builds the request and awaits the backend
SendLock(w) ==
  /\ task[w].pc = "lock"
  /\ MutexFree(mutex, task[w].session)
  /\ mutex' = [mutex EXCEPT ![task[w].session] = w]
  /\ task' = [task EXCEPT ![w].pc = "backend",
       ![w].request = BuildRequest(heap[task[w].session], task[w].content)]
  /\ UNCHANGED <<history_size, heap, made_for, storeVars, flushVars,
                 started, issued, confVars, clockVars, ops>>

\* the backend call completes with `outcome`: Session::send_message runs to
\* its end, the MutexGuard is dropped, and prompt either goes on to
\* ctx.reply (Ok), returns the error (`?`), or unwinds (panic)
BackendReturns(w) ==
  /\ task[w].pc = "backend"
  /\ \E outcome \in BackendOutcomes(task[w].content.id) :
       LET s == task[w].session
           out == Session_send_message(heap[s], task[w].content, outcome)
       IN /\ mutex' = [mutex EXCEPT ![s] = NoOne]
          /\ IF out.result.kind = "Ok"
             THEN task' = [task EXCEPT ![w].pc = "reply", ![w].request = <<>>]
             ELSE task' = [task EXCEPT ![w] = Idle]
          /\ heap' = DropSessions([heap EXCEPT ![s] = out.session],
                                  LiveSessions(sessions, gmaps, task'))
  /\ UNCHANGED <<history_size, made_for, storeVars, flushVars, started,
                 issued, confVars, clockVars, ops>>

\* prompt: ctx.reply(response).await returned `result`; the command returns
\* or goes on to session.remove_last_interaction()
ReplyReturns(w, result) ==
  /\ task[w].pc = "reply"
  /\ task' = IF on_reply(result) = "idle"
             THEN [task EXCEPT ![w] = Idle]
             ELSE [task EXCEPT ![w].pc = on_reply(result), ![w].reply = result]
  /\ heap' = DropSessions(heap, LiveSessions(sessions, gmaps, task'))
  /\ UNCHANGED <<history_size, mutex, made_for, storeVars, flushVars,
                 started, issued, confVars, clockVars, ops>>

\* prompt: ctx.reply(response).await succeeded, the command returns Ok
ReplyDelivered(w) == ReplyReturns(w, "Ok")

\* prompt: ctx.reply(response).await failed; the command goes on to
\* session.remove_last_interaction()
ReplyFailed(w) == ReplyReturns(w, "Err")

\* ChatSession::remove_last_interaction: session.lock().await is granted,
\* the last interaction is popped and the guard dropped; then prompt
\* returns the delivery error
RemoveLastInteraction(w) ==
  /\ task[w].pc = "undo"
  /\ MutexFree(mutex, task[w].session)
  /\ task' = [task EXCEPT ![w] = Idle]
  /\ heap' = DropSessions(
       [heap EXCEPT ![task[w].session] = pop_last_interaction(@)],
       LiveSessions(sessions, gmaps, task'))
  /\ UNCHANGED <<history_size, mutex, made_for, storeVars, flushVars,
                 started, issued, confVars, clockVars, ops>>

\* ---------------------------------------------------------- flusher task
\* start_sessions_flusher: tokio::time::sleep(flush_timeout) is over, so the
\* clock has reached the deadline at least, and BotDataInner::flush begins
\* with self.flushing(true)
WakeAndSetFlushing ==
  /\ flusher = "sleep"
  /\ flushes < MaxFlushes
  /\ flushes' = flushes + 1
  /\ now' = IF now < deadline THEN deadline ELSE now
  /\ flushing' = flushing_store(TRUE)
  /\ flusher' = "write"
  /\ UNCHANGED <<history_size, heapVars, storeVars, cleared_upto,
                 promptVars, confVars, next_flush, deadline, observed, ops>>

\* BotDataInner::flush: self.sessions.write().await, granted at once or
\* queued behind the current readers
WriteRequest ==
  /\ flusher = "write"
  /\ IF CanWrite(rw)
     THEN /\ rw' = [rw EXCEPT !.writer = TRUE]
          /\ flusher' = "clear"
     ELSE /\ rw' = [rw EXCEPT !.waiting = TRUE]
          /\ flusher' = "write_wait"
  /\ UNCHANGED <<history_size, heapVars, sessions, gmaps, flushing, flushes,
                 cleared_upto, promptVars, confVars, clockVars, ops>>

\* the queued write() is granted
WriteGranted ==
  /\ flusher = "write_wait"
  /\ CanWrite(rw)
  /\ rw' = [rw EXCEPT !.writer = TRUE, !.waiting = FALSE]
  /\ flusher' = "clear"
  /\ UNCHANGED <<history_size, heapVars, sessions, gmaps, flushing, flushes,
                 cleared_upto, promptVars, confVars, clockVars, ops>>

\* BotDataInner::flush: DashMap::clear() on the top-level map drops every
\* GuildSessions Arc in it, and the write guard is dropped at the end of
\* the statement
Clear ==
  /\ flusher = "clear"
  /\ sessions' = dashmap_clear(sessions)
  /\ gmaps' = DropMaps(sessions', gmaps, task)
  /\ heap' = DropSessions(heap, LiveSessions(sessions', gmaps', task))
  /\ cleared_upto' = Len(heap)
  /\ rw' = [rw EXCEPT !.writer = FALSE]
  /\ flusher' = "unset"
  /\ UNCHANGED <<history_size, mutex, made_for, flushing, flushes,
                 promptVars, confVars, clockVars, ops>>

\* BotDataInner::flush: self.flushing(false); the loop starts over with
\* schedule_next_flush() and sleeps (nothing a prompt reads changes between
\* the three statements, so in Spec they make one step)
UnsetFlushing ==
  /\ flusher = "unset"
  /\ flushing' = flushing_store(FALSE)
  /\ next_flush' = schedule_next_flush(now, flush_timeout)
  /\ deadline' = sleep_deadline(now, flush_timeout)
  /\ flusher' = "sleep"
  /\ UNCHANGED <<history_size, heapVars, storeVars, flushes, cleared_upto,
                 promptVars, confVars, now, observed, ops>>

\* ------------------------------------------- flusher task, step by step
\* start_sessions_flusher, top of the loop: data.schedule_next_flush()
ScheduleNextFlush ==
  /\ flusher = "loop"
  /\ next_flush' = schedule_next_flush(now, flush_timeout)
  /\ flusher' = "scheduled"
  /\ UNCHANGED <<history_size, heapVars, storeVars, flushing, flushes,
                 cleared_upto, promptVars, confVars, now, deadline, observed,
                 ops>>

\* start_sessions_flusher: tokio::time::sleep(data.flush_timeout) is called
\* and the task is suspended until the deadline
StartSleep ==
  /\ flusher = "scheduled"
  /\ deadline' = sleep_deadline(now, flush_timeout)
  /\ flusher' = "sleep"
  /\ UNCHANGED <<history_size, heapVars, storeVars, flushing, flushes,
                 cleared_upto, promptVars, confVars, now, next_flush, observed,
                 ops>>

\* BotDataInner::flush: self.flushing(false), flush returns and the loop
\* starts over
FlushReturns ==
  /\ flusher = "unset"
  /\ flushing' = flushing_store(FALSE)
  /\ flusher' = "loop"
  /\ UNCHANGED <<history_size, heapVars, storeVars, flushes, cleared_upto,
                 promptVars, confVars, clockVars, ops>>

\* the clock advances by one tick while the flusher is not asleep ahead of
\* its deadline (the time it sleeps passes in WakeAndSetFlushing)
Tick ==
  /\ deadline <= now
  /\ now < deadline + MaxLate
  /\ now' = now + 1
  /\ UNCHANGED <<history_size, heapVars, storeVars, flushVars, promptVars,
                 confVars, next_flush, deadline, observed, ops>>

\* info: data.next_flush() loads next_flush for the reply; the value 0 is a
\* valid timestamp, so from_timestamp(..).unwrap() does not panic
Info ==
  /\ observed' = observed \cup {next_flush}
  /\ UNCHANGED <<history_size, heapVars, storeVars, flushVars, promptVars,
                 confVars, now, next_flush, deadline, ops>>

\* BotData::new, then start_sessions_flusher has spawned the flusher task,
\* which has not run yet: next_flush still holds AtomicI64::new(0); setup
\* returns and commands are served from here on
ClockInit ==
  /\ history_size = 1
  /\ heap = <<>> /\ mutex = <<>> /\ made_for = <<>>
  /\ sessions = DashMap_new(Guilds)
  /\ gmaps = <<>>
  /\ rw = [readers |-> {}, writer |-> FALSE, waiting |-> FALSE]
  /\ flushing = FALSE
  /\ flusher = "loop"
  /\ flushes = 0
  /\ cleared_upto = 0
  /\ task = [w \in Workers |-> Idle]
  /\ started = [w \in Workers |-> 0]
  /\ issued = 0
  /\ flush_days \in 1..MaxFlushDays
  /\ flush_timeout = flush_timeout_of(flush_days)
  /\ now = 0
  /\ next_flush = 0
  /\ deadline = 0
  /\ observed = {}
  /\ ops = <<>>

\* the flusher, the clock and the info command
ClockNext ==
  \/ ScheduleNextFlush
  \/ StartSleep
  \/ WakeAndSetFlushing
  \/ WriteRequest
  \/ Clear
  \/ FlushReturns
  \/ Tick
  \/ Info

ClockSpec == ClockInit /\ [][ClockNext]_vars

Prompt(w) ==
  \/ PromptCheck(w)
  \/ FlushNoticeSent(w)
  \/ SessionGuild(w)
  \/ SessionUser(w)
  \/ SendLock(w)
  \/ BackendReturns(w)
  \/ ReplyDelivered(w)
  \/ ReplyFailed(w)
  \/ RemoveLastInteraction(w)

Flusher ==
  \/ WakeAndSetFlushing
  \/ WriteRequest
  \/ WriteGranted
  \/ Clear
  \/ UnsetFlushing

Next == (\E w \in Workers : Prompt(w)) \/ Flusher

Spec == Init /\ [][Next]_vars

\* the bot as in Init, with the smallest history window (the window plays no
\* part in the flush) and MaxFairPrompts prompt commands left to deliver
FairInit ==
  /\ history_size = 1
  /\ heap = <<>> /\ mutex = <<>> /\ made_for = <<>>
  /\ sessions = DashMap_new(Guilds)
  /\ gmaps = <<>>
  /\ rw = [readers |-> {}, writer |-> FALSE, waiting |-> FALSE]
  /\ flushing = FALSE
  /\ flusher = "sleep"
  /\ flushes = 0
  /\ cleared_upto = 0
  /\ task = [w \in Workers |-> Idle]
  /\ started = [w \in Workers |-> 0]
  /\ issued = MaxPrompts - MaxFairPrompts
  /\ flush_days = 1
  /\ flush_timeout = flush_timeout_of(flush_days)
  /\ now = 0
  /\ next_flush = schedule_next_flush(now, flush_timeout)
  /\ deadline = sleep_deadline(now, flush_timeout)
  /\ observed = {}
  /\ ops = <<>>

\* the bot with the scheduling tokio guarantees: the flusher task is run
\* whenever it can take a step (its timer fires, a free lock is granted, a
\* synchronous statement runs), and a task inside BotDataInner::session,
\* which has no await left once read() is granted, runs to its return.
\* Nothing is assumed about the backend call or the reply ever returning.
FairSpec ==
  /\ FairInit
  /\ [][Next]_vars
  /\ WF_vars(WakeAndSetFlushing)
  /\ WF_vars(WriteRequest)
  /\ WF_vars(WriteGranted)
  /\ WF_vars(Clear)
  /\ WF_vars(UnsetFlushing)
  /\ \A w \in Workers : WF_vars(SessionUser(w))

\* ---------------------------------------------- SessionSpec: one Session
\* a single caller drives one Session through its public methods; the bot
\* around it stands still
SessionInit ==
  /\ history_size \in 1..MaxHistorySize
  /\ heap = <<create_chat(history_size)>>
  /\ mutex = <<NoOne>>
  /\ made_for = <<<<"gA", "uX">>>>
  /\ BotInit
  /\ ops = <<>>

\* session.send_message(content).await with the backend answering `outcome`
CallSend ==
  /\ Len(ops) < MaxOps
  /\ \E outcome \in BackendOutcomes(Len(ops) + 1) :
       LET content == Len(ops) + 1
           out == Session_send_message(heap[1], content, outcome)
       IN /\ heap' = [heap EXCEPT ![1] = out.session]
          /\ ops' = Append(ops, [op |-> "send", content |-> content,
                                 outcome |-> outcome, result |-> out.result,
                                 request |-> BuildRequest(heap[1], content),
                                 before |-> heap[1].history])
  /\ UNCHANGED <<history_size, mutex, made_for, storeVars, flushVars,
                 promptVars, confVars, clockVars>>

\* session.pop_last_interaction()
CallUndo ==
  /\ Len(ops) < MaxOps
  /\ heap' = [heap EXCEPT ![1] = pop_last_interaction(heap[1])]
  /\ ops' = Append(ops, [op |-> "undo", content |-> 0,
                         outcome |-> [kind |-> "none", payload |-> <<>>],
                         result |-> [kind |-> "unit", payload |-> <<>>],
                         request |-> <<>>,
                         before |-> heap[1].history])
  /\ UNCHANGED <<history_size, mutex, made_for, storeVars, flushVars,
                 promptVars, confVars, clockVars>>

SessionNext == CallSend \/ CallUndo

SessionSpec == SessionInit /\ [][SessionNext]_vars

\* ------------------------------------------- claims on one Session (C1-C4)
Min(a, b) == IF a < b THEN a ELSE b

\* the history of heap[1] right after the i-th call returned
After(i) == IF i < Len(ops) THEN ops[i + 1].before ELSE heap[1].history

IsSendOk(o) == o.op = "send" /\ o.result.kind = "Ok"

\* the Interaction a successful send records
Recorded(o) ==
  Interaction(ChatMessage("user", o.content),
              ChatMessage("assistant", o.outcome.payload))

\* the interactions of the successful sends, in send order
RECURSIVE SentInteractions(_)
SentInteractions(calls) ==
  IF calls = <<>> THEN <<>>
  ELSE LET rest == SentInteractions(SubSeq(calls, 1, Len(calls) - 1))
           last == calls[Len(calls)]
       IN IF IsSendOk(last) THEN Append(rest, Recorded(last)) ELSE rest

NoUndo == \A i \in 1..Len(ops) : ops[i].op # "undo"

\* C1: the history never holds more than history_size interactions; after N
\* successful sends and no undo it is exactly the min(N, C) most recent
\* interactions in send order; a successful send on a full history drops
\* exactly the oldest interaction and puts the new one last.
C1_BoundedHistory ==
  LET sent == SentInteractions(ops)
      N == Len(sent)
      C == history_size
  IN /\ \A i \in 1..Len(ops) : Len(After(i)) <= C
     /\ Len(heap[1].history) <= C
     /\ NoUndo =>
          /\ Len(heap[1].history) = Min(N, C)
          /\ heap[1].history = SubSeq(sent, N - Min(N, C) + 1, N)
     /\ \A i \in 1..Len(ops) :
          (IsSendOk(ops[i]) /\ Len(ops[i].before) = C) =>
            After(i) = Append(Tail(ops[i].before), Recorded(ops[i]))

\* C1 witness: C >= 2, no undo, and one more successful send than fits
C1_Witness ==
  /\ history_size >= 2
  /\ NoUndo
  /\ Len(SentInteractions(ops)) = history_size + 1
  /\ IsSendOk(ops[Len(ops)])

\* C2: a send whose exec_chat call returns an error returns that very error
\* and leaves the history exactly as it was before the call.
C2_FailedSendKeepsHistory ==
  \A i \in 1..Len(ops) :
    (ops[i].op = "send" /\ ops[i].outcome.kind = "error") =>
      /\ ops[i].result = [kind |-> "Err", payload |-> ops[i].outcome.payload]
      /\ After(i) = ops[i].before

\* C2 witness: a failed send on a full history of at least two interactions
C2_Witness ==
  \E i \in 1..Len(ops) :
    /\ ops[i].op = "send" /\ ops[i].outcome.kind = "error"
    /\ Len(ops[i].before) = history_size
    /\ history_size >= 2

\* a successful send directly followed by an undo
SendThenUndo(i) ==
  /\ i + 1 <= Len(ops)
  /\ IsSendOk(ops[i])
  /\ ops[i + 1].op = "undo"

\* C3 as claimed: a successful send directly followed by undoLast restores
\* the pre-send history, for every pre-send length 0..C.
C3_UndoRestoresAlways ==
  \A i \in 1..Len(ops) :
    SendThenUndo(i) => After(i + 1) = ops[i].before

\* C3 amended: send-then-undo restores the pre-send history when it held
\* fewer than C interactions; on a full history the send has evicted the
\* oldest interaction, and the undo leaves the pre-send history without it.
C3_UndoRestoresBelowCapacity ==
  \A i \in 1..Len(ops) :
    SendThenUndo(i) =>
      /\ Len(ops[i].before) < history_size => After(i + 1) = ops[i].before
      /\ Len(ops[i].before) = history_size =>
           After(i + 1) = Tail(ops[i].before)

\* C3 witness: send-then-undo both below capacity (on a non-empty history)
\* and at capacity
C3_Witness ==
  /\ \E i \in 1..Len(ops) :
       /\ SendThenUndo(i)
       /\ ops[i].before # <<>>
       /\ Len(ops[i].before) < history_size
  /\ \E i \in 1..Len(ops) :
       SendThenUndo(i) /\ Len(ops[i].before) = history_size

\* C4: an undo removes exactly the last interaction and keeps the earlier
\* ones in place; on an empty history it changes nothing; it can be repeated.
C4_UndoRemovesLast ==
  \A i \in 1..Len(ops) :
    ops[i].op = "undo" =>
      /\ ops[i].result.kind = "unit"
      /\ ops[i].before = <<>> => After(i) = <<>>
      /\ ops[i].before # <<>> =>
           /\ Len(After(i)) = Len(ops[i].before) - 1
           /\ \A k \in 1..Len(After(i)) : After(i)[k] = ops[i].before[k]

\* C4 witness: an undo on a history of two, and two undos in a row on an
\* empty history
C4_Witness ==
  /\ \E i \in 1..Len(ops) : ops[i].op = "undo" /\ Len(ops[i].before) >= 2
  /\ \E i \in 1..Len(ops) :
       /\ i + 1 <= Len(ops)
       /\ ops[i].op = "undo" /\ ops[i].before = <<>>
       /\ ops[i + 1].op = "undo" /\ ops[i + 1].before = <<>>

\* ------------------------------------------------ claims on the store (C5-)
\* the ChatSession the store maps (guild, user) to, NoRef when there is none
Lookup(guild, user) ==
  IF sessions[guild] = NoRef THEN NoRef ELSE gmaps[sessions[guild]][user]

KeyOf(w) == <<task[w].guild, task[w].user>>

\* the sessions created since the store was last cleared
SinceClear == (cleared_upto + 1)..Len(heap)

\* C5: since the last clear at most one Session has been created per
\* (guild, user); every task that got a Session from the store since then
\* holds the very Session the store maps its key to, so two tasks with the
\* same key hold the same one.
C5_SingleWinner ==
  /\ \A k \in Keys : Cardinality({s \in SinceClear : made_for[s] = k}) <= 1
  /\ \A w \in Workers :
       task[w].session \in SinceClear =>
         Lookup(task[w].guild, task[w].user) = task[w].session
  /\ \A w1, w2 \in Workers :
       (/\ KeyOf(w1) = KeyOf(w2)
        /\ task[w1].session \in SinceClear
        /\ task[w2].session \in SinceClear)
       => task[w1].session = task[w2].session

\* C5 witness: on a store that started empty, two tasks asked for the same
\* key, both calls have returned and neither has sent yet; one Session exists
C5_Witness ==
  \E w1, w2 \in Workers :
    /\ w1 # w2
    /\ task[w1].pc = "lock" /\ task[w2].pc = "lock"
    /\ KeyOf(w1) = KeyOf(w2)
    /\ task[w1].session = task[w2].session
    /\ started[w1] = 1 /\ started[w2] = 1
    /\ cleared_upto = 0
    /\ Len(heap) = 1

\* a step in which BotDataInner::session returns to task w
Returns(w) == task[w].pc = "user_entry" /\ task'[w].pc = "lock"

\* C6: the store never maps a key to a Session created before the last
\* clear; the Session a getOrCreate returns was created after the last clear;
\* a Session is created with an empty history under a new index; and a step
\* that changes the history of an evicted Session changes no Session the
\* store maps.
C6_FlushWipesEverything ==
  /\ [](\A k \in Keys :
          Lookup(k[1], k[2]) # NoRef => Lookup(k[1], k[2]) \in SinceClear)
  /\ [][\A w \in Workers :
          Returns(w) =>
            /\ task'[w].session > cleared_upto
            /\ Lookup(task[w].guild, task[w].user) = NoRef =>
                 /\ task'[w].session = Len(heap) + 1
                 /\ heap'[task'[w].session].history = <<>>]_vars
  /\ [][\A s \in 1..cleared_upto :
          heap'[s].history # heap[s].history =>
            \A k \in Keys :
              LET m == Lookup(k[1], k[2])
              IN m # NoRef => (m # s /\ heap'[m] = heap[m])]_vars

\* C6 witness: two keys were populated, the store was cleared while a send
\* on one of the old Sessions was in flight, and a getOrCreate for that key
\* has since returned a new Session with an empty history
C6_Witness ==
  \E w1, w2 \in Workers :
    /\ cleared_upto >= 2
    /\ made_for[1] # made_for[2]
    /\ task[w1].pc = "backend"
    /\ task[w1].session <= cleared_upto
    /\ task[w2].pc = "lock"
    /\ KeyOf(w2) = KeyOf(w1)
    /\ task[w2].session > cleared_upto
    /\ Lookup(task[w2].guild, task[w2].user) = task[w2].session
    /\ heap[task[w2].session].history = <<>>

\* C7: every interaction in a Session's history was sent with the key the
\* Session was created for, and a step that changes the history of a live
\* Session is taken by a task running a prompt of that key on that Session.
C7_CrossKeyIsolation ==
  /\ [](\A s \in 1..Len(heap) :
          \A i \in 1..Len(heap[s].history) :
            LET c == heap[s].history[i].user_message.content
            IN <<c.guild, c.user>> = made_for[s])
  /\ [][\A s \in 1..Len(heap) :
          (heap'[s].history # heap[s].history /\ heap'[s] # Freed) =>
            \E w \in Workers :
              /\ task[w].session = s
              /\ KeyOf(w) = made_for[s]
              /\ task'[w] # task[w]]_vars

\* C7 witness: sends of (gA, uX), (gA, uY) and (gB, uX) have each been
\* recorded, in three different Sessions
C7_Witness ==
  \E s1, s2, s3 \in 1..Len(heap) :
    /\ made_for[s1] = <<"gA", "uX">> /\ heap[s1].history # <<>>
    /\ made_for[s2] = <<"gA", "uY">> /\ heap[s2].history # <<>>
    /\ made_for[s3] = <<"gB", "uX">> /\ heap[s3].history # <<>>

\* C8: a task inside BotDataInner::session holds the read lock and works on
\* the map the store currently holds for its guild; the writer never holds
\* the lock together with a reader; the Session a getOrCreate returns is the
\* one the store maps to its key at that moment; right after the clear the
\* store holds no guild.
C8_ClearAtomic ==
  /\ [](\A w \in Workers :
          task[w].pc = "user_entry" =>
            /\ w \in rw.readers
            /\ task[w].guild_sessions # NoRef
            /\ sessions[task[w].guild] = task[w].guild_sessions)
  /\ [](rw.writer => rw.readers = {})
  /\ [][\A w \in Workers :
          Returns(w) =>
            /\ sessions'[task[w].guild] = task[w].guild_sessions
            /\ gmaps'[sessions'[task[w].guild]][task[w].user]
                 = task'[w].session]_vars
  /\ [][(flusher = "clear" /\ flusher' = "unset") =>
          /\ \A g \in Guilds : sessions'[g] = NoRef
          /\ \A k \in Keys : Lookup(k[1], k[2])' = NoRef]_vars

\* C8 witness: a clear is queued behind a task that is inside
\* BotDataInner::session, and another task's getOrCreate waits behind it
C8_Witness ==
  \E w1, w2 \in Workers :
    /\ flusher = "write_wait" /\ rw.waiting
    /\ task[w1].pc = "user_entry" /\ w1 \in rw.readers
    /\ task[w2].pc = "session"

\* the tasks awaiting the backend inside Session::send_message on heap[s]
Sending(s) == {w \in Workers : task[w].pc = "backend" /\ task[w].session = s}

\* C9: at most one task is inside send_message on a Session, it holds the
\* Session's mutex, and from the moment it built its request until its own
\* append the request is the flattened history followed by its user message.
C9_SendIsCriticalSection ==
  /\ \A s \in 1..Len(heap) : Cardinality(Sending(s)) <= 1
  /\ \A w \in Workers :
       task[w].pc = "backend" =>
         /\ mutex[task[w].session] = w
         /\ task[w].request =
              Flatten(heap[task[w].session].history)
              \o <<ChatMessage("user", task[w].content)>>
  /\ \A s \in 1..Len(heap) :
       mutex[s] # NoOne => mutex[s] \in Sending(s)

\* C9 witness: a send is awaiting the backend with a request that carries an
\* earlier exchange of the other task, which is now waiting for the same
\* Session's mutex with its next prompt
C9_Witness ==
  \E w1, w2 \in Workers :
    /\ w1 # w2
    /\ task[w1].pc = "backend"
    /\ task[w2].pc = "lock"
    /\ task[w2].session = task[w1].session
    /\ Len(task[w1].request) = 3
    /\ task[w1].request[1].content.id[1] = w2

\* the history without the interaction of task w's prompt
WithoutOwn(history, w) ==
  LET NotOwn(i) == i.user_message.content # task[w].content
  IN SelectSeq(history, NotOwn)

\* C10 as claimed: with no flush so far, the undo a prompt performs after its
\* reply could not be delivered removes that prompt's own interaction and no
\* interaction appended by another prompt.
C10_UndoRemovesOwn ==
  [][\A w \in Workers :
       (/\ cleared_upto = 0 /\ cleared_upto' = 0
        /\ task[w].pc = "undo" /\ task'[w].pc = "idle"
        /\ heap'[task[w].session].history # heap[task[w].session].history)
       => heap'[task[w].session].history
            = WithoutOwn(heap[task[w].session].history, w)]_vars

\* ------------------------------------------ claims on the flush flag (C11-)
\* the flusher is between two flushes: publishing the next time or asleep
FlusherIdle == flusher \in {"loop", "scheduled", "sleep"}

\* some guild has a map in the store
StoreNonEmpty == \E g \in Guilds : sessions[g] # NoRef

\* C11: flushing is false whenever the flusher is between two flushes and
\* true from before write() is requested until the store has been cleared;
\* the write lock is asked for and held only with the flag set; the flag goes
\* back to false only in the step after the clear; and a step that removes a
\* guild from the store is taken with the flag set.
C11_FlushingWindow ==
  /\ [](FlusherIdle => ~flushing)
  /\ [](flusher \in {"write", "write_wait", "clear"} => flushing)
  /\ []((rw.writer \/ rw.waiting) => flushing)
  /\ [][(flushing /\ ~flushing') => flusher = "unset"]_vars
  /\ [][(flusher' = "unset" /\ flusher # "unset") =>
          (flusher = "clear" /\ ~StoreNonEmpty')]_vars
  /\ [][(\E g \in Guilds : sessions[g] # NoRef /\ sessions'[g] = NoRef) =>
          (flushing /\ flushing')]_vars

\* C11 witness: the flusher holds the write lock over a store with two guilds
\* in it, with the flag set
C11_Witness ==
  /\ flusher = "clear" /\ rw.writer /\ flushing
  /\ \A g \in Guilds : sessions[g] # NoRef

\* C12 as claimed: a prompt that finds the flag set sends the flush notice and
\* touches neither the store nor a Session, and no prompt is inside
\* BotDataInner::session or starts a send while the flag is set.
C12_NoSessionWhileFlushing ==
  /\ [][\A w \in Workers :
          (task[w].pc = "idle" /\ task'[w].pc # "idle" /\ flushing) =>
            task'[w].pc = "flush_notice"]_vars
  /\ [](\A w \in Workers : task[w].pc = "user_entry" => ~flushing)
  /\ [][\A w \in Workers :
          (task[w].pc = "lock" /\ task'[w].pc = "backend") => ~flushing]_vars

\* C12 amended: a prompt whose is_flushing() check reads true sends the flush
\* notice and returns without touching the store or a Session, and a prompt
\* enters BotDataInner::session only after a check that read false; the check
\* is not atomic with what follows, so such a prompt may be inside
\* BotDataInner::session or start its send while the flag is set, but never
\* inside BotDataInner::session while the clear holds the write lock.
C12_RejectsWhenFlagRead ==
  /\ [][\A w \in Workers :
          (task[w].pc = "idle" /\ task'[w].pc # "idle") =>
            /\ flushing => task'[w].pc = "flush_notice"
            /\ ~flushing => task'[w].pc = "session"]_vars
  /\ [][\A w \in Workers :
          (task[w].pc = "flush_notice" /\ task'[w] # task[w]) =>
            /\ task'[w] = Idle
            /\ UNCHANGED <<heapVars, storeVars>>]_vars
  /\ [](\A w \in Workers :
          task[w].pc = "flush_notice" =>
            task[w].guild_sessions = NoRef /\ task[w].session = NoRef)
  /\ [](rw.writer => \A w \in Workers : task[w].pc # "user_entry")

\* C12 witness: one prompt is answering with the flush notice while another,
\* which passed the check before the flag was set, is inside
\* BotDataInner::session with the flag set
C12_Witness ==
  \E w1, w2 \in Workers :
    /\ flushing
    /\ task[w1].pc = "flush_notice"
    /\ task[w2].pc = "user_entry"

\* C13 as claimed: a send whose remote call does not yield a text reply (an
\* error, a response without content, a response whose content is not text)
\* returns an Err value and leaves the history as it was.
C13_EveryFailureIsAnError ==
  \A i \in 1..Len(ops) :
    (ops[i].op = "send" /\ ops[i].outcome.kind # "text") =>
      /\ ops[i].result.kind = "Err"
      /\ After(i) = ops[i].before

\* C14 as claimed: flush_timeout is flush_days * 86400 seconds, it never
\* changes, and every published next_flush and every sleep is that far ahead
\* of the clock reading it was computed from.
C14_IntervalIsDays ==
  /\ [](flush_timeout = flush_days * 86400)
  /\ [][flush_timeout' = flush_timeout /\ flush_days' = flush_days]_vars
  /\ [][(flusher = "loop" /\ flusher' = "scheduled") =>
          next_flush' = timestamp(now) + flush_days * 86400]_vars
  /\ [][(flusher = "scheduled" /\ flusher' = "sleep") =>
          deadline' = now + flush_days * 86400 * TicksPerSec]_vars

\* task w waits for the mutex of its Session, to send or to undo
WaitsForMutex(w) ==
  /\ task[w].pc \in {"lock", "undo"}
  /\ ~MutexFree(mutex, task[w].session)

\* C15: while a task is suspended on the backend with its Session locked, a
\* task serving another (guild, user) works on another Session and its next
\* step is enabled (its session() call waits for nothing but a flush that
\* holds or has asked for the store's write lock); a task that waits for a
\* mutex waits for a send on its own Session.
C15_OtherKeysNotBlocked ==
  /\ \A w1, w2 \in Workers :
       (/\ task[w1].pc = "backend"
        /\ task[w2].pc # "idle"
        /\ KeyOf(w2) # KeyOf(w1))
       => /\ task[w2].session # task[w1].session
          /\ task[w2].pc = "session" =>
               (CanRead(rw) => ENABLED SessionGuild(w2))
          /\ task[w2].pc = "user_entry" => ENABLED SessionUser(w2)
          /\ task[w2].pc = "lock" => ENABLED SendLock(w2)
          /\ task[w2].pc = "backend" => ENABLED BackendReturns(w2)
          /\ task[w2].pc = "reply" =>
               (ENABLED ReplyDelivered(w2) /\ ENABLED ReplyFailed(w2))
          /\ task[w2].pc = "undo" => ENABLED RemoveLastInteraction(w2)
          /\ task[w2].pc = "flush_notice" => ENABLED FlushNoticeSent(w2)
  /\ \A w \in Workers :
       WaitsForMutex(w) =>
         \E v \in Workers :
           /\ v # w
           /\ task[v].pc = "backend"
           /\ task[v].session = task[w].session
           /\ mutex[task[w].session] = v

\* C15 witness: a send of (gA, uX) is suspended on the backend, its Session
\* still empty, while a prompt of another key, whose Session was created
\* later, has been recorded and its task has started on the next prompt
C15_Witness ==
  \E w1, w2 \in Workers :
    /\ task[w1].pc = "backend"
    /\ started[w1] = 1
    /\ heap[task[w1].session].history = <<>>
    /\ task[w2].pc = "lock"
    /\ KeyOf(w2) # KeyOf(w1)
    /\ task[w2].session > task[w1].session
    /\ Len(heap[task[w2].session].history) = 1
    /\ started[w2] = 2

\* C16: every flush that starts gets the write lock, clears the store and
\* sets flushing back to false with the flusher asleep again, whatever the
\* sends in flight do; and a sleeping flusher that has flushes left starts
\* the next one.
C16_FlushCompletes ==
  /\ flushing ~> (~flushing /\ flusher = "sleep")
  /\ (flusher \in {"write", "write_wait"}) ~> (flusher = "unset")
  /\ (flusher = "sleep" /\ flushes < MaxFlushes) ~> flushing

\* C16 witness: the store has just been cleared while a send that started
\* before the flush is still suspended on the backend with its Session
\* locked, and a getOrCreate that arrived meanwhile waited for the clear
C16_Witness ==
  \E w1, w2 \in Workers :
    /\ flusher = "unset" /\ flushing
    /\ task[w1].pc = "backend"
    /\ task[w1].session <= cleared_upto
    /\ mutex[task[w1].session] = w1
    /\ task[w2].pc = "session"

\* the order in which the flusher goes through its loop
FlusherOrder ==
  {<<"loop", "scheduled">>, <<"scheduled", "sleep">>, <<"sleep", "write">>,
   <<"write", "clear">>, <<"write", "write_wait">>, <<"write_wait", "clear">>,
   <<"clear", "unset">>, <<"unset", "loop">>}

\* C17: the flusher publishes, sleeps and flushes in that order, again and
\* again; next_flush changes only in the publishing step, which comes after
\* the previous flush has returned and before the sleep starts, and is set
\* to the clock's reading in whole seconds plus flush_timeout; the sleep
\* lasts flush_timeout at least; and from the wake-up to the end of the
\* flush the clock is not before the published next_flush.
C17_CycleOrder ==
  /\ [][flusher' # flusher => <<flusher, flusher'>> \in FlusherOrder]_vars
  /\ [][next_flush' # next_flush =>
          (flusher = "loop" /\ flusher' = "scheduled")]_vars
  /\ [][(flusher = "loop" /\ flusher' = "scheduled") =>
          next_flush' = timestamp(now) + flush_timeout]_vars
  /\ [][(flusher = "sleep" /\ flusher' = "write") =>
          now' >= deadline /\ deadline >= next_flush * TicksPerSec]_vars
  /\ [][(flusher = "scheduled" /\ flusher' = "sleep") =>
          deadline' = now + flush_timeout * TicksPerSec]_vars
  /\ [](flusher \in {"write", "write_wait", "clear", "unset"} =>
          timestamp(now) >= next_flush)
  /\ [][(flusher = "clear" /\ flusher' = "unset") =>
          (timestamp(now) >= next_flush /\ next_flush' = next_flush)]_vars

\* C17 witness: the flusher is about to clear the store in a cycle whose
\* next_flush was published at a clock reading between two whole seconds and
\* whose sleep started later than that; it woke up late
C17_Witness ==
  /\ flusher = "clear"
  /\ next_flush * TicksPerSec < deadline
  /\ deadline % TicksPerSec # 0
  /\ now > deadline

\* the history of the Session task w works on, before and after a step
HistoryOf(w) == heap[task[w].session].history
HistoryOfNext(w) == heap'[task[w].session].history

\* the step leaves the history of task w's Session as it is (the Session may
\* be freed when w held the last reference to it)
KeepsHistory(w) ==
  \/ HistoryOfNext(w) = HistoryOf(w)
  \/ heap'[task[w].session] = Freed

\* C18: a prompt reaches remove_last_interaction only from a reply that
\* failed, which it reaches only from a send that returned Ok and recorded
\* its interaction; there it pops once and returns; a prompt whose send
\* failed, or whose reply was delivered, returns without changing the history;
\* and no step other than such an undo makes a live history shorter.
C18_UndoOnlyAfterFailedReply ==
  /\ [](\A w \in Workers : task[w].pc = "undo" <=> task[w].reply = "Err")
  /\ [][\A w \in Workers :
          /\ (task'[w].pc = "undo" /\ task[w].pc # "undo") =>
               task[w].pc = "reply"
          /\ (task'[w].pc = "reply" /\ task[w].pc # "reply") =>
               /\ task[w].pc = "backend"
               /\ HistoryOfNext(w) # <<>>
               /\ HistoryOfNext(w)[Len(HistoryOfNext(w))].user_message.content
                    = task[w].content
          /\ (task[w].pc = "undo" /\ task'[w] # task[w]) =>
               /\ task'[w] = Idle
               /\ \/ heap'[task[w].session]
                       = pop_last_interaction(heap[task[w].session])
                  \/ heap'[task[w].session] = Freed
          /\ (task[w].pc \in {"backend", "reply"} /\ task'[w].pc = "idle") =>
               KeepsHistory(w)]_vars
  /\ [][\A s \in 1..Len(heap) :
          (Len(heap'[s].history) < Len(heap[s].history) /\ heap'[s] # Freed) =>
            \E w \in Workers :
              /\ task[w].pc = "undo" /\ task[w].session = s
              /\ task'[w] = Idle]_vars

\* C18 witness: the reply of one prompt failed and its undo waits for the
\* Session's mutex, held by the send of the other task's second prompt on
\* the same Session; the undelivered interaction is still in the history
C18_Witness ==
  \E w1, w2 \in Workers :
    /\ task[w1].pc = "undo"
    /\ task[w2].pc = "backend"
    /\ task[w2].session = task[w1].session
    /\ started[w2] = 2
    /\ Len(HistoryOf(w1)) = 1
    /\ HistoryOf(w1)[1].user_message.content = task[w1].content

\* task w waits for the store's read lock
WaitsForRead(w) == task[w].pc = "session" /\ ~CanRead(rw)

\* the flusher waits for the store's write lock
WaitsForWrite == flusher = "write_wait" /\ ~CanWrite(rw)

\* a step of a task or of the flusher other than the return of a backend
\* call, a reply or a notice, the arrival of a prompt, or the end of a sleep
LocalStep ==
  \/ \E w \in Workers :
       \/ SessionGuild(w)
       \/ SessionUser(w)
       \/ SendLock(w)
       \/ RemoveLastInteraction(w)
  \/ WriteRequest
  \/ WriteGranted
  \/ Clear
  \/ UnsetFlushing

\* C19: whoever holds a lock waits for no lock: a reader of the store is in
\* the synchronous body of session() and can finish it, the writer can
\* clear, and the holder of a Session's mutex is suspended on the backend,
\* holding neither the store's lock nor a reference to a guild's map; so
\* whenever a task or the flusher waits for a lock, either a local step is
\* enabled or everyone who waits is waiting for a send that is suspended on
\* the backend.
C19_NoCyclicWait ==
  /\ \A w \in rw.readers :
       task[w].pc = "user_entry" /\ ENABLED SessionUser(w)
  /\ rw.writer => (flusher = "clear" /\ rw.readers = {} /\ ENABLED Clear)
  /\ \A s \in 1..Len(mutex) :
       mutex[s] # NoOne =>
         (task[mutex[s]].pc = "backend" /\ task[mutex[s]].session = s)
  /\ \A w \in Workers :
       task[w].pc \in {"lock", "backend", "reply", "undo"} =>
         (w \notin rw.readers /\ task[w].guild_sessions = NoRef)
  /\ (WaitsForWrite \/ \E w \in Workers : WaitsForRead(w) \/ WaitsForMutex(w))
     => \/ ENABLED LocalStep
        \/ /\ ~WaitsForWrite
           /\ \A w \in Workers : ~WaitsForRead(w)
           /\ \A w \in Workers :
                WaitsForMutex(w) =>
                  task[mutex[task[w].session]].pc = "backend"

\* C19 witness: the flusher waits for the write lock behind a reader, a
\* second task waits for the read lock behind the flusher, and the reader
\* can go on
C19_Witness ==
  \E w1, w2 \in Workers :
    /\ WaitsForWrite
    /\ w1 \in rw.readers
    /\ WaitsForRead(w2)
    /\ ENABLED SessionUser(w1)

\* C20 as claimed: every next_flush value the info command reads was
\* published by schedule_next_flush, so it is the start of some cycle plus
\* flush_timeout, and never the 0 the field is constructed with.
C20_ObservedWasPublished ==
  \A v \in observed : v # 0 /\ v >= flush_timeout

====
